---- MODULE Spec2Model ----
(***************************************************************************)
(* Model of lib/doit/task.py: the actions (CmdAction, PythonAction), the   *)
(* action factory create_action, the Task entity (construction and         *)
(* execute) and the task builder dict_to_task.                             *)
(*                                                                         *)
(* Two specifications share the module:                                    *)
(*   SpecExec   Task.execute driving CmdAction.execute / PythonAction.     *)
(*              execute, the process-wide streams and the logger;          *)
(*   SpecBuild  create_action, Task.__init__ and dict_to_task applied to   *)
(*              inputs drawn from bounded sets.                            *)
(***************************************************************************)
EXTENDS Integers, Sequences, FiniteSets, TLC

(***************************************************************************)
(* Bounds of the model.                                                    *)
(***************************************************************************)
\* longest list of actions of a Task that is executed
MaxActions == 3
\* a process killed by signal n has returncode -n; signals 1..MaxSignal
MaxSignal == 2
\* exit codes 0..MaxLowCode, and ExitBand codes either side of the threshold
MaxLowCode == 2
ExitBand == 2
\* integers a callable returns are -1..MaxInt, containers have 0..MaxLen items
MaxInt == 1
MaxLen == 1

(***************************************************************************)
(* Python values, as far as truth testing looks at them: the type and, for *)
(* a number its value, for a container its length.                         *)
(***************************************************************************)
PyVal(t, n) == [t |-> t, n |-> n]
PyNone == PyVal("NoneType", 0)
PyFalse == PyVal("bool", 0)
PyTrue == PyVal("bool", 1)
Containers == {"str", "list", "dict"}

Values ==
    {PyNone, PyFalse, PyTrue}
        \cup {PyVal("int", n) : n \in -1..MaxInt}
        \cup {PyVal(t, n) : t \in Containers, n \in 0..MaxLen}

\* a faulty variant: the test `result is False` in place of `not result`
PyNotIsFalse(v) == v.t = "bool" /\ v.n = 0

\* `not result` as Python evaluates it (task.py line 190)
PyNot(v) ==
    CASE v.t = "NoneType" -> TRUE
      [] v.t \in {"bool", "int"} -> v.n = 0
      [] OTHER -> v.n = 0

(***************************************************************************)
(* Outcomes of an execute call: a normal return or the exception raised.   *)
(* info carries what the exception was built from.                         *)
(***************************************************************************)
Outcome(cls, info) == [cls |-> cls, info |-> info]
Returned == Outcome("return", PyNone)

\* the text a stream can carry
Contents == {"", "a", "b"}

\* process.returncode is greater than this: TaskError (task.py line 83)
ErrorThreshold == 125

RetCodes ==
    (-MaxSignal..MaxLowCode)
        \cup ((ErrorThreshold - ExitBand)..(ErrorThreshold + ExitBand))
        \cup {255}

\* what the spawned process does: what it writes and how it exits
Processes == [out : Contents, err : Contents, returncode : RetCodes]

\* what the callable does: what it writes, then how it ends
ExcClasses == {"ValueError", "IOError", "SystemExit", "KeyboardInterrupt"}
Callables ==
    [kind : {"return"}, val : Values, exc : {"none"}, out : Contents, err : Contents]
        \cup [kind : {"noreturn"}, val : {PyNone}, exc : {"none"},
              out : Contents, err : Contents]
        \cup [kind : {"raise"}, val : {PyNone}, exc : ExcClasses,
              out : Contents, err : Contents]

NoCall == [kind |-> "none", val |-> PyNone, exc |-> "none", out |-> "", err |-> ""]
NoProc == [out |-> "", err |-> "", returncode |-> 0]

VARIABLES
    pc,              \* position of the caller inside Task.execute / action.execute
    actions,         \* self.actions of the Task being executed: the action kinds
    capture_stdout,  \* Task.execute's arguments
    capture_stderr,
    i,               \* index of the loop of Task.execute (1-based)
    started,         \* the action.execute calls made so far: self and arguments
    finished,        \* the outcome of each action.execute call that ended
    task_outcome,    \* how Task.execute ended
    sys_stdout,      \* the process-wide streams
    sys_stderr,
    console,         \* the stream objects the process started with
    old_stdout,      \* locals of PythonAction.execute
    old_stderr,
    buf_out,         \* content of the StringIO buffers
    buf_err,
    call,            \* what the callable did in the current call
    exc_pending,     \* exception travelling through the finally block
    result,          \* local `result` of PythonAction.execute
    proc,            \* what the process of the last CmdAction did
    log,             \* calls of logger.log made by the current action.execute
    build            \* input and result of the last construction operation

execvars ==
    <<pc, actions, capture_stdout, capture_stderr, i, started, finished,
      task_outcome, sys_stdout, sys_stderr, console, old_stdout, old_stderr,
      buf_out, buf_err, call, exc_pending, result, proc, log>>
vars == <<execvars, build>>

ActionKinds == {"CmdAction", "PythonAction"}
ActionLists == UNION {[1..n -> ActionKinds] : n \in 0..MaxActions}

Unset == "unset"
StringIOOut == "StringIO#stdout"
StringIOErr == "StringIO#stderr"
Consoles == {[out |-> "tty", err |-> "tty"], [out |-> "pipe1", err |-> "pipe2"]}

NoBuild == [op |-> "none"]

InitExec ==
    /\ pc = "idle"
    /\ actions = <<>>
    /\ capture_stdout = FALSE
    /\ capture_stderr = FALSE
    /\ i = 1
    /\ started = <<>>
    /\ finished = <<>>
    /\ task_outcome = Outcome("none", PyNone)
    /\ console \in Consoles
    /\ sys_stdout = console.out
    /\ sys_stderr = console.err
    /\ old_stdout = Unset
    /\ old_stderr = Unset
    /\ buf_out = ""
    /\ buf_err = ""
    /\ call = NoCall
    /\ exc_pending = Outcome("none", PyNone)
    /\ result = PyNone
    /\ proc = NoProc
    /\ log = <<>>

Init ==
    /\ InitExec
    /\ build = NoBuild

(***************************************************************************)
(* Task.execute (task.py lines 303-310).                                   *)
(***************************************************************************)
\* the caller invokes task.execute(capture_stdout, capture_stderr)
TaskExecute ==
    /\ pc \in {"idle", "done"}
    /\ \E as \in ActionLists, cs \in BOOLEAN, ce \in BOOLEAN :
        /\ actions' = as
        /\ capture_stdout' = cs
        /\ capture_stderr' = ce
    /\ pc' = "loop"
    /\ i' = 1
    /\ started' = <<>>
    /\ finished' = <<>>
    /\ task_outcome' = Outcome("none", PyNone)
    /\ call' = NoCall
    /\ proc' = NoProc
    /\ log' = <<>>
    /\ result' = PyNone
    /\ exc_pending' = Outcome("none", PyNone)
    /\ old_stdout' = Unset
    /\ old_stderr' = Unset
    /\ UNCHANGED <<sys_stdout, sys_stderr, console, buf_out, buf_err, build>>

\* the frame of the call action.execute(capture_stdout, capture_stderr) that
\* the loop makes for self.actions[i]
Frame(idx, cs, ce) == [self |-> idx, capture_stdout |-> cs, capture_stderr |-> ce]
CallAction == Frame(i, capture_stdout, capture_stderr)

\* a faulty variant: the loop catches what an action raises and goes on
TaskLoopSwallow(o) ==
    /\ finished' = Append(finished, o)
    /\ i' = i + 1
    /\ pc' = "loop"
    /\ task_outcome' = IF o.cls = "return" THEN task_outcome ELSE o

\* the loop after action.execute ended with outcome o: an exception leaves
\* Task.execute as it is, a return moves on to the next action
TaskLoop(o) ==
    /\ finished' = Append(finished, o)
    /\ IF o.cls = "return"
         THEN /\ i' = i + 1
              /\ pc' = "loop"
              /\ task_outcome' = task_outcome
         ELSE /\ i' = i
              /\ pc' = "done"
              /\ task_outcome' = o

\* the loop has run out of actions: Task.execute returns
TaskReturn ==
    /\ pc = "loop"
    /\ i > Len(actions)
    /\ pc' = "done"
    /\ task_outcome' = Returned
    /\ UNCHANGED <<actions, capture_stdout, capture_stderr, i, started, finished,
                   sys_stdout, sys_stderr, console, old_stdout, old_stderr,
                   buf_out, buf_err, call, exc_pending, result, proc, log, build>>

\* the frame of the action.execute call in progress (or of the last one)
Cur == started[Len(started)]

(***************************************************************************)
(* CmdAction.execute (task.py lines 46-90).                                *)
(***************************************************************************)
\* process.communicate(): a stream that is not piped comes back as None
Communicate(capture, text) ==
    IF capture THEN [t |-> "str", text |-> text]
               ELSE [t |-> "NoneType", text |-> ""]

\* `if out:` on what communicate returned
Truthy(s) == s.t # "NoneType" /\ s.text # ""

LogIf(l, tag, s) == IF Truthy(s) THEN Append(l, <<tag, s.text>>) ELSE l

\* a faulty variant: `>=` in place of `>` at line 83
CmdOutcomeOffByOne(returncode) ==
    IF returncode >= ErrorThreshold
      THEN Outcome("TaskError", PyVal("int", returncode))
      ELSE IF returncode # 0
             THEN Outcome("TaskFailed", PyVal("int", returncode))
             ELSE Returned

\* lines 83-90
CmdOutcome(returncode) ==
    IF returncode > ErrorThreshold
      THEN Outcome("TaskError", PyVal("int", returncode))
      ELSE IF returncode # 0
             THEN Outcome("TaskFailed", PyVal("int", returncode))
             ELSE Returned

\* a faulty variant: the exit code is looked at before the streams are logged
CmdActionExecuteRaiseFirst(p, cs, ce) ==
    LET out == Communicate(cs, p.out)
        err == Communicate(ce, p.err)
    IN  [log |-> IF p.returncode # 0
                   THEN <<>>
                   ELSE LogIf(LogIf(<<>>, "stdout", out), "stderr", err),
         outcome |-> CmdOutcome(p.returncode)]

\* the whole of CmdAction.execute on a process that behaves as p
CmdActionExecute(p, cs, ce) ==
    LET out == Communicate(cs, p.out)
        err == Communicate(ce, p.err)
    IN  [log |-> LogIf(LogIf(<<>>, "stdout", out), "stderr", err),
         outcome |-> CmdOutcome(p.returncode)]

CmdExecute ==
    /\ pc = "loop"
    /\ i <= Len(actions)
    /\ actions[i] = "CmdAction"
    /\ started' = Append(started, CallAction)
    /\ \E p \in Processes :
        LET r == CmdActionExecute(p, CallAction.capture_stdout,
                                  CallAction.capture_stderr)
        IN  /\ proc' = p
            /\ log' = r.log
            /\ TaskLoop(r.outcome)
    /\ call' = NoCall
    /\ UNCHANGED <<actions, capture_stdout, capture_stderr, sys_stdout, sys_stderr,
                   console, old_stdout, old_stderr, buf_out, buf_err, exc_pending,
                   result, build>>

(***************************************************************************)
(* PythonAction.execute (task.py lines 142-192), one step per block: the   *)
(* redirection, the call, and the finally block stream by stream.          *)
(***************************************************************************)
\* lines 153-160: the streams are replaced by fresh StringIO buffers
PyBegin ==
    /\ pc = "loop"
    /\ i <= Len(actions)
    /\ actions[i] = "PythonAction"
    /\ started' = Append(started, CallAction)
    /\ IF CallAction.capture_stdout
         THEN /\ old_stdout' = sys_stdout
              /\ sys_stdout' = StringIOOut
              /\ buf_out' = ""
         ELSE UNCHANGED <<old_stdout, sys_stdout, buf_out>>
    /\ IF CallAction.capture_stderr
         THEN /\ old_stderr' = sys_stderr
              /\ sys_stderr' = StringIOErr
              /\ buf_err' = ""
         ELSE UNCHANGED <<old_stderr, sys_stderr, buf_err>>
    /\ log' = <<>>
    /\ call' = NoCall
    /\ proc' = NoProc
    /\ pc' = "py_call"
    /\ UNCHANGED <<actions, capture_stdout, capture_stderr, i, finished,
                   task_outcome, console, exc_pending, result, build>>

\* a faulty variant: without the clause of lines 169-170, on an interpreter where
\* SystemExit and KeyboardInterrupt are Exceptions
TryCallWrapAll(c) ==
    CASE c.kind = "return" ->
            [result |-> c.val, exc |-> Outcome("none", PyNone)]
      [] c.kind = "noreturn" ->
            [result |-> PyNone, exc |-> Outcome("none", PyNone)]
      [] OTHER ->
            [result |-> PyNone, exc |-> Outcome("TaskError", PyVal(c.exc, 0))]

\* lines 165-176: what leaves the inner try block when the callable behaves
\* as c: the value bound to result, or the exception raised
TryCall(c) ==
    CASE c.kind = "return" ->
            [result |-> c.val, exc |-> Outcome("none", PyNone)]
      [] c.kind = "noreturn" ->
            [result |-> PyNone, exc |-> Outcome("none", PyNone)]
      [] c.kind = "raise" /\ c.exc \in {"SystemExit", "KeyboardInterrupt"} ->
            [result |-> PyNone, exc |-> Outcome(c.exc, PyVal(c.exc, 0))]
      [] OTHER ->
            [result |-> PyNone, exc |-> Outcome("TaskError", PyVal(c.exc, 0))]

\* a write to a stream lands in the buffer when the stream is redirected
Written(stream, buffer, text, content) ==
    IF stream = buffer THEN content \o text ELSE content

PyCall ==
    /\ pc = "py_call"
    /\ \E c \in Callables :
        /\ call' = c
        /\ buf_out' = Written(sys_stdout, StringIOOut, c.out, buf_out)
        /\ buf_err' = Written(sys_stderr, StringIOErr, c.err, buf_err)
        /\ result' = TryCall(c).result
        /\ exc_pending' = TryCall(c).exc
    /\ pc' = "py_log_stdout"
    /\ UNCHANGED <<actions, capture_stdout, capture_stderr, i, started, finished,
                   task_outcome, sys_stdout, sys_stderr, console, old_stdout,
                   old_stderr, proc, log, build>>

\* lines 180 and 185: logger.log(tag, stream.getvalue())
LogStream(capture, l, tag, content) ==
    IF capture THEN Append(l, <<tag, content>>) ELSE l

\* lines 182 and 187: the saved stream comes back
RestoreStream(capture, stream, old) == IF capture THEN old ELSE stream

PyLogStdout ==
    /\ pc = "py_log_stdout"
    /\ log' = LogStream(Cur.capture_stdout, log, "stdout", buf_out)
    /\ pc' = "py_restore_stdout"
    /\ UNCHANGED <<actions, capture_stdout, capture_stderr, i, started, finished,
                   task_outcome, sys_stdout, sys_stderr, console, old_stdout,
                   old_stderr, buf_out, buf_err, call, exc_pending, result, proc,
                   build>>

\* a faulty variant: the restoration follows the call instead of sitting in a finally
\* block, so an exception skips it
PyRestoreStdoutNoFinally ==
    /\ pc = "py_restore_stdout"
    /\ sys_stdout' = IF exc_pending.cls = "none"
                       THEN RestoreStream(Cur.capture_stdout, sys_stdout, old_stdout)
                       ELSE sys_stdout
    /\ buf_out' = IF Cur.capture_stdout THEN "" ELSE buf_out
    /\ pc' = "py_log_stderr"
    /\ UNCHANGED <<actions, capture_stdout, capture_stderr, i, started, finished,
                   task_outcome, sys_stderr, console, old_stdout, old_stderr,
                   buf_err, call, exc_pending, result, proc, log, build>>

\* lines 181-182
PyRestoreStdout ==
    /\ pc = "py_restore_stdout"
    /\ sys_stdout' = RestoreStream(Cur.capture_stdout, sys_stdout, old_stdout)
    /\ buf_out' = IF Cur.capture_stdout THEN "" ELSE buf_out
    /\ pc' = "py_log_stderr"
    /\ UNCHANGED <<actions, capture_stdout, capture_stderr, i, started, finished,
                   task_outcome, sys_stderr, console, old_stdout, old_stderr,
                   buf_err, call, exc_pending, result, proc, log, build>>

PyLogStderr ==
    /\ pc = "py_log_stderr"
    /\ log' = LogStream(Cur.capture_stderr, log, "stderr", buf_err)
    /\ pc' = "py_restore_stderr"
    /\ UNCHANGED <<actions, capture_stdout, capture_stderr, i, started, finished,
                   task_outcome, sys_stdout, sys_stderr, console, old_stdout,
                   old_stderr, buf_out, buf_err, call, exc_pending, result, proc,
                   build>>

\* lines 186-187
PyRestoreStderr ==
    /\ pc = "py_restore_stderr"
    /\ sys_stderr' = RestoreStream(Cur.capture_stderr, sys_stderr, old_stderr)
    /\ buf_err' = IF Cur.capture_stderr THEN "" ELSE buf_err
    /\ pc' = "py_exit"
    /\ UNCHANGED <<actions, capture_stdout, capture_stderr, i, started, finished,
                   task_outcome, sys_stdout, console, old_stdout, old_stderr,
                   buf_out, call, exc_pending, result, proc, log, build>>

\* the end of the finally block re-raises what was travelling; otherwise
\* lines 189-192 decide on the value of result
PyOutcome(exc, res) ==
    IF exc.cls # "none"
      THEN exc
      ELSE IF PyNot(res) THEN Outcome("TaskFailed", res) ELSE Returned

PyExit ==
    /\ pc = "py_exit"
    /\ TaskLoop(PyOutcome(exc_pending, result))
    /\ UNCHANGED <<actions, capture_stdout, capture_stderr, started, sys_stdout,
                   sys_stderr, console, old_stdout, old_stderr, buf_out, buf_err,
                   call, exc_pending, result, proc, log, build>>

NextExec ==
    \/ TaskExecute
    \/ CmdExecute
    \/ PyBegin
    \/ PyCall
    \/ PyLogStdout
    \/ PyRestoreStdout
    \/ PyLogStderr
    \/ PyRestoreStderr
    \/ PyExit
    \/ TaskReturn

SpecExec == Init /\ [][NextExec]_vars

(***************************************************************************)
(* Objects handed to the construction operations: the Python type, a text  *)
(* that identifies the object (for a str, its content) and, for a tuple or *)
(* a list, its elements.                                                   *)
(***************************************************************************)
Obj(t, v, items) == [t |-> t, v |-> v, items |-> items]
Elem(t, v) == [t |-> t, v |-> v]
AsElem(o) == Elem(o.t, o.v)

NoneElem == Elem("NoneType", "None")
EmptyList == Elem("list", "[]")
EmptyDict == Elem("dict", "{}")

\* isinstance(x, BaseAction): the classes derived from BaseAction
IsBaseAction(x) == x.t \in {"CmdAction", "PythonAction", "CustomAction"}
\* callable(x)
Callable(x) == x.t \in {"function", "builtin"}

Ok(o) == [exc |-> "none", obj |-> o]
Raise(e) == [exc |-> e, obj |-> Obj("NoneType", "None", <<>>)]

\* CmdAction.__init__ (lines 35-44)
CmdActionInit(action) == Ok(Obj("CmdAction", action, <<>>))

\* PythonAction.__init__ (lines 110-140)
PythonActionInit(py_callable, args, kwargs) ==
    IF ~Callable(py_callable)
      THEN Raise("InvalidTask")
      ELSE IF args.t # "NoneType" /\ ~(args.t = "tuple" \/ args.t = "list")
             THEN Raise("InvalidTask")
             ELSE IF kwargs.t # "NoneType" /\ kwargs.t # "dict"
                    THEN Raise("InvalidTask")
                    ELSE Ok(Obj("PythonAction", "",
                                <<py_callable,
                                  IF args.t = "NoneType" THEN EmptyList ELSE args,
                                  IF kwargs.t = "NoneType" THEN EmptyDict
                                                           ELSE kwargs>>))

\* PythonAction(*action): Python binds the elements to the parameters and
\* raises TypeError when there are none or too many
NumCtorParams == 3
PythonActionUnpack(items) ==
    IF Len(items) = 0 \/ Len(items) > NumCtorParams
      THEN Raise("TypeError")
      ELSE PythonActionInit(items[1],
                            IF Len(items) >= 2 THEN items[2] ELSE NoneElem,
                            IF Len(items) >= 3 THEN items[3] ELSE NoneElem)

\* a faulty variant: without the test of lines 213-214
CreateActionNoPassThrough(action) ==
    IF action.t = "str"
      THEN CmdActionInit(action.v)
      ELSE IF action.t = "tuple"
             THEN PythonActionUnpack(action.items)
             ELSE IF Callable(action)
                    THEN PythonActionInit(AsElem(action), NoneElem, NoneElem)
                    ELSE Raise("InvalidTask")

\* create_action (lines 202-225)
CreateAction(action) ==
    IF IsBaseAction(action)
      THEN Ok(action)
      ELSE IF action.t = "str"
             THEN CmdActionInit(action.v)
             ELSE IF action.t = "tuple"
                    THEN PythonActionUnpack(action.items)
                    ELSE IF Callable(action)
                           THEN PythonActionInit(AsElem(action), NoneElem, NoneElem)
                           ELSE Raise("InvalidTask")

\* longest tuple or list given as an action
MaxTuple == 4

Elems ==
    {Elem("function", "f"), Elem("tuple", "(1,)"), Elem("list", "[1]"),
     Elem("dict", "{'k': 1}"), Elem("str", "x"), NoneElem}
ElemSeqs == UNION {[1..n -> Elems] : n \in 0..MaxTuple}

ActionSpecs ==
    {Obj("CmdAction", "ls", <<>>),
     Obj("PythonAction", "", <<Elem("function", "f"), EmptyList, EmptyDict>>),
     Obj("CustomAction", "custom", <<>>),
     Obj("str", "", <<>>), Obj("str", "ls -l", <<>>),
     Obj("function", "f", <<>>), Obj("builtin", "len", <<>>),
     Obj("int", "1", <<>>), Obj("NoneType", "None", <<>>),
     Obj("dict", "{}", <<>>)}
        \cup {Obj("tuple", "", xs) : xs \in ElemSeqs}
        \cup {Obj("list", "", xs) : xs \in ElemSeqs}

CallCreateAction ==
    /\ build = NoBuild
    /\ \E a \in ActionSpecs :
          build' = [op |-> "create_action", input |-> a, result |-> CreateAction(a)]
    /\ UNCHANGED execvars

(***************************************************************************)
(* Task.__init__ (task.py lines 243-300).                                  *)
(***************************************************************************)
\* entries of a dependencies list: booleans and strings; a string is the
\* sequence of its characters
MaxDepLen == 2
MaxDeps == 2
DepChars == {":", "/", "a"}
DepStrings == UNION {[1..n -> DepChars] : n \in 0..MaxDepLen}
DepBool(b) == [t |-> "bool", b |-> b, s |-> <<>>]
DepStr(x) == [t |-> "str", b |-> FALSE, s |-> x]
DepEntries == {DepBool(b) : b \in BOOLEAN} \cup {DepStr(x) : x \in DepStrings}
DepLists == UNION {[1..n -> DepEntries] : n \in 0..MaxDeps}

\* dep.endswith('/'), dep.startswith(':'), dep[1:]
EndsWith(x, c) == Len(x) > 0 /\ x[Len(x)] = c
StartsWith(x, c) == Len(x) > 0 /\ x[1] = c
From1(x) == SubSeq(x, 2, Len(x))

\* isinstance(x, list) or isinstance(x, tuple)
IsSequence(x) == x.t = "list" \/ x.t = "tuple"

\* the state of the loop of lines 278-294
DepState(run_once, folder_dep, task_dep, file_dep) ==
    [exc |-> "none", run_once |-> run_once, folder_dep |-> folder_dep,
     task_dep |-> task_dep, file_dep |-> file_dep]

\* a faulty variant: the test for ':' comes before the test for '/'
ClassifyTaskFirst(st, dep) ==
    IF dep.t = "bool"
      THEN IF ~dep.b
             THEN [st EXCEPT !.exc = "InvalidTask"]
             ELSE [st EXCEPT !.run_once = TRUE]
      ELSE IF StartsWith(dep.s, ":")
             THEN [st EXCEPT !.task_dep = Append(@, From1(dep.s))]
             ELSE IF EndsWith(dep.s, "/")
                    THEN [st EXCEPT !.folder_dep = Append(@, dep.s)]
                    ELSE IF dep.t = "str"
                           THEN [st EXCEPT !.file_dep = Append(@, dep.s)]
                           ELSE st

\* one turn of the loop, lines 279-294
Classify(st, dep) ==
    IF dep.t = "bool"
      THEN IF ~dep.b
             THEN [st EXCEPT !.exc = "InvalidTask"]
             ELSE [st EXCEPT !.run_once = TRUE]
      ELSE IF EndsWith(dep.s, "/")
             THEN [st EXCEPT !.folder_dep = Append(@, dep.s)]
             ELSE IF StartsWith(dep.s, ":")
                    THEN [st EXCEPT !.task_dep = Append(@, From1(dep.s))]
                    ELSE IF dep.t = "str"
                           THEN [st EXCEPT !.file_dep = Append(@, dep.s)]
                           ELSE st

\* the loop from entry k on; a raise ends it
RECURSIVE ClassifyFrom(_, _, _)
ClassifyFrom(deps, k, st) ==
    IF k > Len(deps) \/ st.exc # "none"
      THEN st
      ELSE ClassifyFrom(deps, k + 1, Classify(st, deps[k]))

\* [create_action(a) for a in actions] from element k on (line 264): the
\* first element that raises ends the comprehension
RECURSIVE CreateActionsFrom(_, _, _)
CreateActionsFrom(specs, k, acc) ==
    IF k > Len(specs)
      THEN [exc |-> "none", objs |-> acc]
      ELSE LET r == CreateAction(specs[k])
           IN  IF r.exc # "none"
                 THEN [exc |-> r.exc, objs |-> <<>>]
                 ELSE CreateActionsFrom(specs, k + 1, Append(acc, r.obj))

\* lines 261-266; the arguments `actions` is None, a list of action specs
\* (its elements in acts.specs) or one action spec
SelfActions(acts) ==
    IF acts.t = "NoneType"
      THEN [exc |-> "none", objs |-> <<>>]
      ELSE IF acts.t = "list"
             THEN CreateActionsFrom(acts.specs, 1, <<>>)
             ELSE LET r == CreateAction(acts.one)
                  IN  IF r.exc # "none"
                        THEN [exc |-> r.exc, objs |-> <<>>]
                        ELSE [exc |-> "none", objs |-> <<r.obj>>]

\* a faulty variant: without the check of lines 297-300
RunOnceWithFilesAllowed(run_once, file_dep) == FALSE

\* line 297
RunOnceWithFiles(run_once, file_dep) == run_once /\ file_dep # <<>>

NoTask == [name |-> "<no task>"]
Built(task) == [exc |-> "none", task |-> task]
Failed(e) == [exc |-> e, task |-> NoTask]

\* Task.__init__
TaskInit(name, acts, dependencies, targets, setup, is_subtask) ==
    IF ~IsSequence(dependencies)
      THEN Failed("InvalidTask")
      ELSE IF ~IsSequence(targets)
             THEN Failed("InvalidTask")
             ELSE LET a == SelfActions(acts)
                      c == ClassifyFrom(dependencies.items, 1,
                                        DepState(FALSE, <<>>, <<>>, <<>>))
                  IN  IF a.exc # "none"
                        THEN Failed(a.exc)
                        ELSE IF c.exc # "none"
                               THEN Failed(c.exc)
                               ELSE IF RunOnceWithFiles(c.run_once, c.file_dep)
                                      THEN Failed("InvalidTask")
                                      ELSE Built([name |-> name,
                                                  actions |-> a.objs,
                                                  dependencies |-> dependencies,
                                                  targets |-> targets,
                                                  setup |-> setup,
                                                  run_once |-> c.run_once,
                                                  is_subtask |-> is_subtask,
                                                  folder_dep |-> c.folder_dep,
                                                  task_dep |-> c.task_dep,
                                                  file_dep |-> c.file_dep])

\* the arguments the model constructs Tasks from
ActsNone == [t |-> "NoneType", specs |-> <<>>, one |-> Obj("NoneType", "None", <<>>)]
ActsList(specs) == [t |-> "list", specs |-> specs, one |-> Obj("NoneType", "None", <<>>)]
ActsOne(spec) == [t |-> spec.t, specs |-> <<>>, one |-> spec]

Seqn(t, items) == [t |-> t, items |-> items]
NotAList == Seqn("str", <<>>)

ActsArgs ==
    {ActsNone,
     ActsList(<<>>),
     ActsList(<<Obj("str", "ls", <<>>), Obj("function", "f", <<>>)>>),
     ActsList(<<Obj("str", "ls", <<>>), Obj("int", "1", <<>>)>>),
     ActsOne(Obj("str", "ls", <<>>)),
     ActsOne(Obj("tuple", "", <<Elem("function", "f"), Elem("list", "[1]")>>)),
     ActsOne(Obj("tuple", "", <<>>)),
     ActsOne(Obj("dict", "{}", <<>>))}
TargetsArgs == {Seqn("list", <<>>), Seqn("tuple", <<"out">>), NotAList}
DepsArgs ==
    {Seqn(t, ds) : t \in {"list", "tuple"}, ds \in DepLists} \cup {NotAList}
FewDepsArgs ==
    {Seqn("list", <<>>), Seqn("list", <<DepStr(<<"a">>), DepBool(TRUE)>>), NotAList}

TaskArgs ==
    [name : {"t"}, acts : {ActsList(<<Obj("str", "ls", <<>>)>>)},
     dependencies : DepsArgs, targets : {Seqn("list", <<"out">>)},
     setup : {"None"}, is_subtask : {FALSE}]
        \cup [name : {"t"}, acts : ActsArgs, dependencies : FewDepsArgs,
              targets : TargetsArgs, setup : {"None", "s"}, is_subtask : BOOLEAN]

CallTask ==
    /\ build = NoBuild
    /\ \E a \in TaskArgs :
          build' = [op |-> "Task", input |-> a,
                    result |-> TaskInit(a.name, a.acts, a.dependencies,
                                        a.targets, a.setup, a.is_subtask)]
    /\ UNCHANGED execvars

(***************************************************************************)
(* dict_to_task (task.py lines 329-366).                                   *)
(***************************************************************************)
\* line 340
TASK_ATTRS == {"name", "actions", "dependencies", "targets", "setup"}

\* task_dict.get(key, default)
Get(d, key, default) == IF key \in DOMAIN d THEN d[key] ELSE default

\* lines 346-347: the value of 'action' moves to 'actions'
RenameAction(d) ==
    [k \in (DOMAIN d \ {"action"}) \cup {"actions"} |->
        IF k = "actions" THEN d["action"] ELSE d[k]]

\* the messages of lines 348-359 are formatted with task_dict['name'], which
\* raises KeyError when the dictionary has no such key
NeedsName(d, e) == IF "name" \in DOMAIN d THEN e ELSE "KeyError"

Warned(r, n) == [exc |-> r.exc, task |-> r.task, warnings |-> n]

DictToTask(task_dict) ==
    LET alias == "actions" \notin DOMAIN task_dict /\ "action" \in DOMAIN task_dict
        d == IF alias THEN RenameAction(task_dict) ELSE task_dict
    IN  IF "actions" \notin DOMAIN task_dict /\ ~alias
          THEN Warned(Failed(NeedsName(task_dict, "InvalidTask")), 0)
          ELSE IF alias /\ "name" \notin DOMAIN d
                 THEN Warned(Failed("KeyError"), 0)
                 ELSE IF \E key \in DOMAIN d : key \notin TASK_ATTRS
                        THEN Warned(Failed(NeedsName(d, "InvalidTask")),
                                    IF alias THEN 1 ELSE 0)
                        ELSE Warned(TaskInit(Get(d, "name", "None"),
                                             d["actions"],
                                             Get(d, "dependencies", Seqn("list", <<>>)),
                                             Get(d, "targets", Seqn("list", <<>>)),
                                             Get(d, "setup", "None"),
                                             FALSE),
                                    IF alias THEN 1 ELSE 0)

\* the dictionaries the model builds Tasks from: any set of these keys
DictKeys == TASK_ATTRS \cup {"action", "foo"}
TaskDict(keys, deps) ==
    [k \in keys |->
        CASE k = "name" -> "t"
          [] k = "actions" -> ActsList(<<Obj("str", "ls", <<>>)>>)
          [] k = "action" -> ActsOne(Obj("function", "f", <<>>))
          [] k = "dependencies" -> deps
          [] k = "targets" -> Seqn("list", <<"out">>)
          [] k = "setup" -> "s"
          [] OTHER -> 1]
TaskDicts == {TaskDict(keys, deps) : keys \in SUBSET DictKeys, deps \in FewDepsArgs}

CallDictToTask ==
    /\ build = NoBuild
    /\ \E d \in TaskDicts :
          build' = [op |-> "dict_to_task", input |-> d, result |-> DictToTask(d)]
    /\ UNCHANGED execvars

\* the caller drops the result
Forget ==
    /\ build # NoBuild
    /\ build' = NoBuild
    /\ UNCHANGED execvars

NextBuild ==
    \/ CallCreateAction
    \/ CallTask
    \/ CallDictToTask
    \/ Forget

SpecBuild == Init /\ [][NextBuild]_vars

(***************************************************************************)
(* Properties of execution, checked under SpecExec.                        *)
(***************************************************************************)
InPython ==
    pc \in {"py_call", "py_log_stdout", "py_restore_stdout", "py_log_stderr",
            "py_restore_stderr", "py_exit"}

\* the last action.execute call has ended and was made on an action of kind k
LastWas(k) ==
    /\ pc \in {"loop", "done"}
    /\ Len(started) > 0
    /\ Len(finished) = Len(started)
    /\ actions[Cur.self] = k

LastOutcome == finished[Len(finished)]

Raised(o) == o.cls # "return"

\* C1: Task.execute calls action.execute on the actions in declared order,
\* each once and with its own two capture flags; the first call that raises
\* is the last call made, every call before it returned, and what it raised
\* is what Task.execute raises, unchanged; when no call raises, every action
\* has been executed and Task.execute returns normally.
C1_TaskExecuteAbortsAtFirstFailure ==
    /\ \A k \in 1..Len(started) :
          started[k] = Frame(k, capture_stdout, capture_stderr)
    /\ Len(started) <= Len(actions)
    /\ \A k \in 1..Len(finished) :
          Raised(finished[k]) =>
              /\ Len(started) = k
              /\ \A j \in 1..(k - 1) : finished[j] = Returned
              /\ pc = "done"
              /\ task_outcome = finished[k]
    /\ (pc = "done" /\ \A k \in 1..Len(finished) : ~Raised(finished[k])) =>
              /\ Len(started) = Len(actions)
              /\ Len(finished) = Len(actions)
              /\ task_outcome = Returned

\* three actions, the second fails with TaskFailed: the third never starts
C1_Witness ==
    /\ pc = "done"
    /\ Len(actions) = 3
    /\ Len(started) = 2
    /\ finished[1] = Returned
    /\ finished[2].cls = "TaskFailed"
    /\ task_outcome = finished[2]

\* C2: the exit code alone decides how CmdAction.execute ends, whatever the
\* capture flags: 0 returns, 1..125 raises TaskFailed, 126..255 raises
\* TaskError, any other non-zero code raises TaskFailed.
C2_ExitCodeDecidesOutcome ==
    LastWas("CmdAction") =>
        LET rc == proc.returncode
            o == LastOutcome
        IN  /\ o.cls \in {"return", "TaskFailed", "TaskError"}
            /\ rc = 0 => o.cls = "return"
            /\ rc \in 1..125 => o.cls = "TaskFailed"
            /\ rc \in 126..255 => o.cls = "TaskError"
            /\ (rc # 0 /\ rc \notin 1..255) => o.cls = "TaskFailed"
            /\ Raised(o) => o.info = PyVal("int", rc)

C2_Witness ==
    /\ LastWas("CmdAction")
    /\ proc.returncode = 126
    /\ LastOutcome.cls = "TaskError"
    /\ Cur.capture_stdout
    /\ ~Cur.capture_stderr

\* the calls of logger.log made with the tag
Logged(tag) == {k \in 1..Len(log) : log[k][1] = tag}

ForwardedOnce(capture, tag, text) ==
    /\ ~capture => Logged(tag) = {}
    /\ (capture /\ text # "") =>
          /\ Cardinality(Logged(tag)) = 1
          /\ \A k \in Logged(tag) : log[k] = <<tag, text>>

\* C9: CmdAction.execute never calls the logger with the tag of a stream
\* that is not captured, and calls it exactly once, with the stream's tag and
\* content, for a captured stream the process wrote to; this holds when the
\* call ends in TaskFailed or TaskError as well.
C9_CmdForwardsCapturedStreams ==
    LastWas("CmdAction") =>
        /\ ForwardedOnce(Cur.capture_stdout, "stdout", proc.out)
        /\ ForwardedOnce(Cur.capture_stderr, "stderr", proc.err)

C9_Witness ==
    /\ LastWas("CmdAction")
    /\ LastOutcome.cls = "TaskError"
    /\ Cur.capture_stdout
    /\ Cur.capture_stderr
    /\ log = << <<"stdout", "a">>, <<"stderr", "b">> >>

\* C3: whenever no PythonAction.execute is between its redirection and the
\* end of its finally block, sys.stdout and sys.stderr are the objects the
\* process started with, however the calls so far ended; and a captured
\* stream has been handed to the logger, with what the callable wrote to it,
\* by the time it is no longer redirected.
C3_StreamsRestoredOnEveryPath ==
    /\ pc \in {"idle", "loop", "done", "py_exit"} =>
          /\ sys_stdout = console.out
          /\ sys_stderr = console.err
    /\ (InPython \/ LastWas("PythonAction")) =>
          /\ (Cur.capture_stdout /\ sys_stdout # StringIOOut) =>
                <<"stdout", call.out>> \in {log[k] : k \in 1..Len(log)}
          /\ (Cur.capture_stderr /\ sys_stderr # StringIOErr) =>
                <<"stderr", call.err>> \in {log[k] : k \in 1..Len(log)}

\* a captured call that ended by a propagated SystemExit, after an earlier
\* captured call, with the streams back in place
C3_Witness ==
    /\ pc = "done"
    /\ LastWas("PythonAction")
    /\ Len(started) = 2
    /\ actions[1] = "PythonAction"
    /\ task_outcome.cls = "SystemExit"
    /\ Cur.capture_stdout
    /\ Cur.capture_stderr
    /\ call.out = "a"
    /\ sys_stdout = console.out
    /\ sys_stderr = console.err
    /\ log = << <<"stdout", "a">>, <<"stderr", call.err>> >>

\* the values the claim lists as failing, and those it lists as succeeding
ListedFalsy ==
    {PyFalse, PyVal("int", 0), PyNone}
        \cup {PyVal(t, 0) : t \in Containers}
ListedTruthy ==
    {PyTrue}
        \cup {PyVal("int", n) : n \in (-1..MaxInt) \ {0}}
        \cup {PyVal(t, n) : t \in Containers, n \in 1..MaxLen}

\* C4: PythonAction.execute raises TaskFailed when the callable returns
\* False, 0, None or an empty container, returns when it returns True or a
\* non-zero / non-empty value, raises TaskError wrapping the exception when
\* it raises a plain exception, and lets SystemExit and KeyboardInterrupt
\* through as they are.
C4_CallableOutcomeMapping ==
    LastWas("PythonAction") =>
        LET o == LastOutcome
        IN  /\ (call.kind = "return" /\ call.val \in ListedFalsy) =>
                  o = Outcome("TaskFailed", call.val)
            /\ (call.kind = "return" /\ call.val \in ListedTruthy) =>
                  o = Returned
            /\ (call.kind = "raise" /\ call.exc \in {"ValueError", "IOError"}) =>
                  o = Outcome("TaskError", PyVal(call.exc, 0))
            /\ (call.kind = "raise"
                  /\ call.exc \in {"SystemExit", "KeyboardInterrupt"}) =>
                  /\ o = Outcome(call.exc, PyVal(call.exc, 0))
                  /\ o.cls \notin {"TaskError", "TaskFailed"}

C4_Witness ==
    /\ LastWas("PythonAction")
    /\ call.kind = "raise"
    /\ call.exc = "KeyboardInterrupt"
    /\ task_outcome.cls = "KeyboardInterrupt"

\* C5 as stated: a callable that returns normally with anything but a false
\* value, a callable without an explicit return included, makes
\* PythonAction.execute return normally.
C5_NoExplicitReturnSucceeds ==
    (LastWas("PythonAction")
        /\ (call.kind = "noreturn"
              \/ (call.kind = "return" /\ call.val \notin ListedFalsy))) =>
        LastOutcome = Returned

\* C5 (amended): a callable that returns a value that is not false makes
\* PythonAction.execute return normally; a callable without an explicit
\* return yields None, which is false, and execute raises TaskFailed.
C5_OnlyTrueValuesSucceed ==
    LastWas("PythonAction") =>
        /\ (call.kind = "return" /\ call.val \notin ListedFalsy) =>
              LastOutcome = Returned
        /\ call.kind = "noreturn" => LastOutcome = Outcome("TaskFailed", PyNone)

C5_Witness ==
    /\ LastWas("PythonAction")
    /\ call.kind = "noreturn"
    /\ task_outcome = Outcome("TaskFailed", PyNone)

(***************************************************************************)
(* Properties of construction, checked under SpecBuild.                    *)
(***************************************************************************)
\* the texts of the entries of ds that are strings and satisfy P, in order
Strings(ds, P(_)) ==
    LET sel == SelectSeq(ds, LAMBDA e : e.t = "str" /\ P(e.s))
    IN  [k \in 1..Len(sel) |-> sel[k].s]
HasTrue(ds) == \E k \in 1..Len(ds) : ds[k] = DepBool(TRUE)
HasFalse(ds) == \E k \in 1..Len(ds) : ds[k] = DepBool(FALSE)
NumStrings(ds) == Cardinality({k \in 1..Len(ds) : ds[k].t = "str"})

IsFolder(x) == EndsWith(x, "/")
IsTaskRef(x) == StartsWith(x, ":")
IsFile(x) == ~IsFolder(x) /\ ~IsTaskRef(x)
IsTaskNotFolder(x) == IsTaskRef(x) /\ ~IsFolder(x)

\* a Task was constructed from a list or tuple of dependencies
TaskBuilt ==
    /\ build.op = "Task"
    /\ build.result.exc = "none"

\* C6 as stated: every string ending in '/' is in folder_dep, every string
\* beginning with ':' is in task_dep without the ':', every other string is
\* in file_dep, in the order of the list; the three sizes add up to the
\* number of strings and run_once tells whether True was in the list.
C6_EveryColonStringIsTaskDep ==
    TaskBuilt =>
        LET ds == build.input.dependencies.items
            t == build.result.task
        IN  /\ t.folder_dep = Strings(ds, IsFolder)
            /\ t.task_dep = [k \in 1..Len(Strings(ds, IsTaskRef)) |->
                                From1(Strings(ds, IsTaskRef)[k])]
            /\ t.file_dep = Strings(ds, IsFile)
            /\ Len(t.file_dep) + Len(t.task_dep) + Len(t.folder_dep) = NumStrings(ds)
            /\ t.run_once = HasTrue(ds)

\* C6 (amended): every string ending in '/' is in folder_dep, every string
\* beginning with ':' and not ending in '/' is in task_dep without the ':',
\* every other string is in file_dep, in the order of the list; the three
\* sizes add up to the number of strings and run_once tells whether True was
\* in the list.
C6_DependenciesClassified ==
    TaskBuilt =>
        LET ds == build.input.dependencies.items
            t == build.result.task
        IN  /\ t.folder_dep = Strings(ds, IsFolder)
            /\ t.task_dep = [k \in 1..Len(Strings(ds, IsTaskNotFolder)) |->
                                From1(Strings(ds, IsTaskNotFolder)[k])]
            /\ t.file_dep = Strings(ds, IsFile)
            /\ Len(t.file_dep) + Len(t.task_dep) + Len(t.folder_dep) = NumStrings(ds)
            /\ t.run_once = HasTrue(ds)

\* a string that both begins with ':' and ends with '/', classified
C6_Witness ==
    /\ TaskBuilt
    /\ build.input.dependencies.items = <<DepStr(<<":", "/">>), DepStr(<<":", "a">>)>>
    /\ build.result.task.folder_dep = << <<":", "/">> >>
    /\ build.result.task.task_dep = << <<"a">> >>

RenamedKeys(keys) ==
    IF "actions" \notin keys /\ "action" \in keys
      THEN (keys \ {"action"}) \cup {"actions"}
      ELSE keys

\* C8: dict_to_task raises InvalidTask and builds no Task when the
\* dictionary, once 'action' is renamed, has a key that is not one of name,
\* actions, dependencies, targets, setup, and when it has neither 'actions'
\* nor 'action'; otherwise it constructs the Task from the values, with [],
\* [] and None for absent dependencies, targets and setup.
C8_DictToTaskRejectsWithInvalidTask ==
    build.op = "dict_to_task" =>
        LET d == build.input
            keys == RenamedKeys(DOMAIN d)
            r == build.result
            refused == \/ ~(keys \subseteq {"name", "actions", "dependencies",
                                            "targets", "setup"})
                       \/ "actions" \notin keys
        IN  /\ refused => (r.exc = "InvalidTask" /\ r.task = NoTask)
            /\ ~refused =>
                  LET t == TaskInit(Get(d, "name", "None"),
                                    IF "actions" \in DOMAIN d THEN d["actions"]
                                                             ELSE d["action"],
                                    Get(d, "dependencies", Seqn("list", <<>>)),
                                    Get(d, "targets", Seqn("list", <<>>)),
                                    Get(d, "setup", "None"), FALSE)
                  IN  r.exc = t.exc /\ r.task = t.task

\* the arguments a tuple stands for are acceptable to PythonAction
GoodArgs(items) ==
    /\ Len(items) \in 1..3
    /\ items[1].t \in {"function", "builtin"}
    /\ Len(items) >= 2 => items[2].t \in {"NoneType", "tuple", "list"}
    /\ Len(items) >= 3 => items[3].t \in {"NoneType", "dict"}

\* the element at position k, or the default when it is absent or None
ArgOr(items, k, default) ==
    IF Len(items) >= k /\ items[k].t # "NoneType" THEN items[k] ELSE default

\* C10 as stated: an Action comes back unchanged, a string gives a CmdAction
\* holding it, a tuple or other sequence is unpacked into the arguments of
\* PythonAction, a callable gives a PythonAction without arguments, anything
\* else raises InvalidTask.
C10_SequencesAreUnpacked ==
    build.op = "create_action" =>
        LET a == build.input
            r == build.result
        IN  /\ IsBaseAction(a) => r = Ok(a)
            /\ a.t = "str" => r = Ok(Obj("CmdAction", a.v, <<>>))
            /\ (a.t \in {"tuple", "list"} /\ GoodArgs(a.items)) =>
                  r = Ok(Obj("PythonAction", "",
                             <<a.items[1], ArgOr(a.items, 2, EmptyList),
                               ArgOr(a.items, 3, EmptyDict)>>))
            /\ Callable(a) =>
                  r = Ok(Obj("PythonAction", "", <<AsElem(a), EmptyList, EmptyDict>>))
            /\ (~IsBaseAction(a) /\ a.t \notin {"str", "tuple", "list"} /\ ~Callable(a)) =>
                  r = Raise("InvalidTask")

\* C10 (amended): an Action comes back unchanged, a string gives a CmdAction
\* holding it, a tuple (and no other sequence) is unpacked into the
\* arguments of PythonAction: callable, then args, then kwargs, a callable
\* gives a PythonAction without arguments, anything else, a list included,
\* raises InvalidTask.
C10_CreateActionByType ==
    build.op = "create_action" =>
        LET a == build.input
            r == build.result
        IN  /\ IsBaseAction(a) => r = Ok(a)
            /\ a.t = "str" => r = Ok(Obj("CmdAction", a.v, <<>>))
            /\ (a.t = "tuple" /\ GoodArgs(a.items)) =>
                  r = Ok(Obj("PythonAction", "",
                             <<a.items[1], ArgOr(a.items, 2, EmptyList),
                               ArgOr(a.items, 3, EmptyDict)>>))
            /\ (a.t = "tuple" /\ Len(a.items) \in 1..3 /\ ~GoodArgs(a.items)) =>
                  r = Raise("InvalidTask")
            /\ (a.t = "tuple" /\ Len(a.items) \notin 1..3) => r.exc = "TypeError"
            /\ Callable(a) =>
                  r = Ok(Obj("PythonAction", "", <<AsElem(a), EmptyList, EmptyDict>>))
            /\ (~IsBaseAction(a) /\ a.t \notin {"str", "tuple"} /\ ~Callable(a)) =>
                  r = Raise("InvalidTask")

\* a tuple of a callable, its args and its kwargs became a PythonAction
C10_Witness ==
    /\ build.op = "create_action"
    /\ build.input.t = "tuple"
    /\ build.input.items =
          <<Elem("function", "f"), Elem("list", "[1]"), Elem("dict", "{'k': 1}")>>
    /\ build.result.exc = "none"
    /\ build.result.obj.t = "PythonAction"

====
